---- MODULE Spec2Model ----
(***************************************************************************)
(* Model of scripts/model_deployment.py: one invocation of the command     *)
(* line tool, from argument parsing to process exit.                       *)
(*                                                                         *)
(* Strings that the program takes apart or concatenates (URLs, tokens,     *)
(* identifiers) are sequences of tokens, "/" and ":" being tokens of their *)
(* own, so that rstrip('/') and the f-string concatenations are computed.  *)
(* A JSON object is a function from its keys to its values.                *)
(***************************************************************************)
EXTENDS Integers, Sequences, FiniteSets, TLC

VARIABLES argv, environ, file, pc, args, config, client, requests, response,
          success, out, raised, exit_code, file_opens

vars == <<argv, environ, file, pc, args, config, client, requests, response,
          success, out, raised, exit_code, file_opens>>

----------------------------------------------------------------------------
(* Bounds of the input space *)

\* serving_configuration.min_instance ranges over 1..MaxInstance
MaxInstance == 2
\* the API URL given on the command line ends in 0..MaxSlashes slashes
MaxSlashes == 2

----------------------------------------------------------------------------
(* Values *)

\* Python's None for an optional string, and a string that is present
None == [given |-> FALSE, str |-> <<>>]
Str(s) == [given |-> TRUE, str |-> s]

\* variant of Truthy: `is not None` in place of the truth test
Truthy_IsNotNone(x) == x.given

\* truth value of an Optional[str]: None and '' are falsy
Truthy(x) == x.given /\ x.str # <<>>

EmptyDict == [k \in {} |-> {}]

RECURSIVE Repeat(_, _)
Repeat(ch, n) == IF n = 0 THEN <<>> ELSE <<ch>> \o Repeat(ch, n - 1)

\* str.rstrip(ch)
RECURSIVE rstrip(_, _)
rstrip(s, ch) ==
    IF s = <<>> THEN s
    ELSE IF s[Len(s)] = ch THEN rstrip(SubSeq(s, 1, Len(s) - 1), ch)
    ELSE s

----------------------------------------------------------------------------
(* Inputs: command line, environment, the file at the --config path *)

Actions == {"register", "update"}

ApiUrlFlags ==
    {None, Str(<<>>)} \cup {Str(<<"https:", "/", "/", "api">> \o Repeat("/", n)) : n \in 0..MaxSlashes}
ApiUrlEnvs == {None, Str(<<>>), Str(<<"https:", "/", "/", "env">>)}
ApiTokenFlags == {None, Str(<<>>), Str(<<"tok">>)}
ApiTokenEnvs == {None, Str(<<"envtok">>)}
ModelIdFlags == {None, Str(<<>>), Str(<<"CD", ":", "a", ":", "b", ":", "c">>)}

Argv ==
    [action : Actions, api_url : ApiUrlFlags, api_token : ApiTokenFlags,
     model_id : ModelIdFlags, dry_run : BOOLEAN]
Environ == [MODEL_API_URL : ApiUrlEnvs, API_TOKEN : ApiTokenEnvs]

\* the top-level fields a configuration file may hold
ConfigKeys == {"owner_team", "model_name", "variant", "serving_configuration", "serving_regions"}

ServingConfigurations == {[min_instance |-> n] : n \in 1..MaxInstance}

ConfigValue(k, sc) ==
    CASE k = "owner_team" -> "x"
      [] k = "model_name" -> "y"
      [] k = "variant" -> "z"
      [] k = "serving_configuration" -> sc
      [] k = "serving_regions" -> <<"us-east-1">>

\* JSON objects over ConfigKeys
ConfigObjects ==
    {[k \in ks |-> ConfigValue(k, sc)] : ks \in SUBSET ConfigKeys, sc \in ServingConfigurations}

\* a parsed JSON document: an object, or a value that is not an object
JsonObject(m) == [type |-> "object", members |-> m]
JsonArray == [type |-> "array", members |-> EmptyDict]
JsonValues == {JsonObject(m) : m \in ConfigObjects} \cup {JsonArray}

Files ==
    {[kind |-> k, value |-> JsonArray] : k \in {"missing", "unreadable", "malformed"}}
    \cup {[kind |-> "json", value |-> v] : v \in JsonValues}

StatusCodes == {200, 201, 202, 204, 400, 404, 500}
Bodies == {"empty", "json", "text"}
NoResponse == [kind |-> "none", status_code |-> 0, content |-> "empty"]
Responses ==
    {[kind |-> "response", status_code |-> s, content |-> b] : s \in StatusCodes, b \in Bodies}
    \cup {[kind |-> "exception", status_code |-> 0, content |-> "empty"]}

NoArgs ==
    [action |-> "register", api_url |-> None, api_token |-> None,
     model_id |-> None, dry_run |-> FALSE]
NoConfig == [type |-> "unbound", members |-> EmptyDict]
NoClient == [api_url |-> <<>>, api_token |-> <<>>, headers |-> EmptyDict, built |-> FALSE]

----------------------------------------------------------------------------
(* The program *)

\* argparse: a flag that is absent takes its default from the environment
parse_args(av, env) ==
    [action |-> av.action,
     api_url |-> IF av.api_url.given THEN av.api_url ELSE env.MODEL_API_URL,
     api_token |-> IF av.api_token.given THEN av.api_token ELSE env.API_TOKEN,
     model_id |-> av.model_id,
     dry_run |-> av.dry_run]

\* sys.exit(code)
SysExit(code) ==
    /\ pc' = "exited"
    /\ raised' = "SystemExit"
    /\ exit_code' = code

\* an exception nobody catches ends the interpreter with status 1
Uncaught(exc) ==
    /\ pc' = "exited"
    /\ raised' = exc
    /\ exit_code' = 1

\* main() returns normally: the interpreter exits with status 0
Return ==
    /\ pc' = "exited"
    /\ raised' = "none"
    /\ exit_code' = 0

Init ==
    /\ argv \in Argv
    /\ environ \in Environ
    /\ file \in Files
    /\ pc = "parse_args"
    /\ args = NoArgs
    /\ config = NoConfig
    /\ client = NoClient
    /\ requests = <<>>
    /\ response = NoResponse
    /\ success = "unbound"
    /\ out = <<>>
    /\ raised = "none"
    /\ exit_code = -1
    /\ file_opens = 0

ParseArgs ==
    /\ pc = "parse_args"
    /\ args' = parse_args(argv, environ)
    /\ pc' = "validate"
    /\ UNCHANGED <<argv, environ, file, config, client, requests, response,
                   success, out, raised, exit_code, file_opens>>

ValidateRequiredParameters ==
    /\ pc = "validate"
    /\ IF ~Truthy(args.api_url)
         THEN /\ out' = Append(out, "api_url_required")
              /\ SysExit(1)
         ELSE IF ~Truthy(args.api_token)
         THEN /\ out' = Append(out, "api_token_required")
              /\ SysExit(1)
         ELSE /\ pc' = "load_config"
              /\ UNCHANGED <<out, raised, exit_code>>
    /\ UNCHANGED <<argv, environ, file, args, config, client, requests, response,
                   success, file_opens>>

\* variant of load_model_config: a missing file yields an empty configuration
load_model_config_Default ==
    /\ pc = "load_config"
    /\ file_opens' = file_opens + 1
    /\ CASE file.kind = "missing" ->
              /\ out' = Append(out, "config_not_found")
              /\ config' = JsonObject(EmptyDict)
              /\ pc' = "check_dry_run"
              /\ UNCHANGED <<raised, exit_code>>
         [] file.kind = "malformed" ->
              /\ out' = Append(out, "invalid_json")
              /\ SysExit(1)
              /\ UNCHANGED config
         [] file.kind = "unreadable" ->
              /\ Uncaught("PermissionError")
              /\ UNCHANGED <<out, config>>
         [] file.kind = "json" ->
              /\ config' = file.value
              /\ pc' = "check_dry_run"
              /\ UNCHANGED <<out, raised, exit_code>>
    /\ UNCHANGED <<argv, environ, file, args, client, requests, response, success>>

\* load_model_config(args.config), called from main()
load_model_config ==
    /\ pc = "load_config"
    /\ file_opens' = file_opens + 1
    /\ CASE file.kind = "missing" ->
              /\ out' = Append(out, "config_not_found")
              /\ SysExit(1)
              /\ UNCHANGED config
         [] file.kind = "malformed" ->
              /\ out' = Append(out, "invalid_json")
              /\ SysExit(1)
              /\ UNCHANGED config
         [] file.kind = "unreadable" ->
              /\ Uncaught("PermissionError")
              /\ UNCHANGED <<out, config>>
         [] file.kind = "json" ->
              /\ config' = file.value
              /\ pc' = "check_dry_run"
              /\ UNCHANGED <<out, raised, exit_code>>
    /\ UNCHANGED <<argv, environ, file, args, client, requests, response, success>>

\* variant of DryRun: the branch prints and does not return
DryRun_FallsThrough ==
    /\ pc = "check_dry_run"
    /\ args.dry_run
    /\ out' = out \o <<"dry_run_mode", "action", "config">>
    /\ client' = [api_url |-> rstrip(args.api_url.str, "/"),
                  api_token |-> args.api_token.str,
                  headers |-> EmptyDict,
                  built |-> TRUE]
    /\ pc' = "dispatch"
    /\ UNCHANGED <<argv, environ, file, args, config, requests, response, success,
                   raised, exit_code, file_opens>>

\* the dry-run branch of main()
DryRun ==
    /\ pc = "check_dry_run"
    /\ args.dry_run
    /\ out' = out \o <<"dry_run_mode", "action", "config">>
    /\ Return
    /\ UNCHANGED <<argv, environ, file, args, config, client, requests, response,
                   success, file_opens>>

\* ModelDeploymentClient.__init__
ModelDeploymentClient(api_url, api_token) ==
    [api_url |-> rstrip(api_url, "/"),
     api_token |-> api_token,
     headers |-> [h \in {"Authorization", "Content-Type"} |->
                    IF h = "Authorization" THEN <<"Bearer", " ">> \o api_token
                    ELSE <<"application/json">>],
     built |-> TRUE]

CreateClient ==
    /\ pc = "check_dry_run"
    /\ ~args.dry_run
    /\ client' = ModelDeploymentClient(args.api_url.str, args.api_token.str)
    /\ pc' = "dispatch"
    /\ UNCHANGED <<argv, environ, file, args, config, requests, response, success,
                   out, raised, exit_code, file_opens>>

\* config[k] for each k of ks in order: the exception the first failing
\* subscript raises, or "ok"
Subscript(cfg, ks) ==
    IF cfg.type # "object" THEN "TypeError"
    ELSE IF \E k \in ks : k \notin DOMAIN cfg.members THEN "KeyError"
    ELSE "ok"

\* variant of StatusOk: every 2xx status is success
StatusOk_Any2xx(status_code) == status_code \in 200..299

\* a 200 or 201 status is success
StatusOk(status_code) == status_code \in {200, 201}

\* what is printed for the body of a successful response
ResponseLines(resp) ==
    CASE resp.content = "empty" -> <<>>
      [] resp.content = "json" -> <<"response_json">>
      [] resp.content = "text" -> <<"response_text">>

\* variant of register_payload: the fields the tool does not read are dropped
register_payload_Known(cfg) ==
    [k \in DOMAIN cfg \ {"serving_regions"} |-> cfg[k]]

\* the body register_model sends: the configuration itself
register_payload(cfg) == cfg

\* variant of register_model: the log line reads the keys with .get()
register_model_Get ==
    /\ pc = "dispatch"
    /\ args.action = "register"
    /\ IF config.type # "object"
         THEN /\ Uncaught("AttributeError")
              /\ UNCHANGED <<requests, out>>
         ELSE /\ out' = out \o <<"registering", "api_url">>
              /\ requests' = Append(requests,
                    [method |-> "POST",
                     url |-> client.api_url \o <<"/", "v1", "/", "models", "/", "register">>,
                     json |-> config.members,
                     headers |-> client.headers])
              /\ pc' = "post"
              /\ UNCHANGED <<raised, exit_code>>
    /\ UNCHANGED <<argv, environ, file, args, config, client, response, success,
                   file_opens>>

\* register_model up to and including the call of requests.post
register_model ==
    /\ pc = "dispatch"
    /\ args.action = "register"
    /\ LET e == Subscript(config, {"model_name", "variant"}) IN
         IF e # "ok"
           THEN /\ Uncaught(e)
                /\ UNCHANGED <<requests, out>>
           ELSE /\ out' = out \o <<"registering", "api_url">>
                /\ requests' = Append(requests,
                      [method |-> "POST",
                       url |-> client.api_url \o <<"/", "v1", "/", "models", "/", "register">>,
                       json |-> register_payload(config.members),
                       headers |-> client.headers])
                /\ pc' = "post"
                /\ UNCHANGED <<raised, exit_code>>
    /\ UNCHANGED <<argv, environ, file, args, config, client, response, success,
                   file_opens>>

\* variant of register_response: a transport exception sends the request again
register_response_Retry ==
    /\ pc = "post"
    /\ \E resp \in Responses :
         /\ response' = resp
         /\ IF resp.kind = "exception"
              THEN /\ out' = Append(out, "request_failed")
                   /\ success' = "False"
                   /\ pc' = "dispatch"
              ELSE IF StatusOk(resp.status_code)
              THEN /\ out' = out \o <<"registered">> \o ResponseLines(resp)
                   /\ success' = "True"
                   /\ pc' = "report"
              ELSE /\ out' = out \o <<"register_failed", "response_text">>
                   /\ success' = "False"
                   /\ pc' = "report"
    /\ UNCHANGED <<argv, environ, file, args, config, client, requests, raised,
                   exit_code, file_opens>>

\* register_model from the return of requests.post to its own return
register_response ==
    /\ pc = "post"
    /\ \E resp \in Responses :
         /\ response' = resp
         /\ IF resp.kind = "exception"
              THEN /\ out' = Append(out, "request_failed")
                   /\ success' = "False"
              ELSE IF StatusOk(resp.status_code)
              THEN /\ out' = out \o <<"registered">> \o ResponseLines(resp)
                   /\ success' = "True"
              ELSE /\ out' = out \o <<"register_failed", "response_text">>
                   /\ success' = "False"
    /\ pc' = "report"
    /\ UNCHANGED <<argv, environ, file, args, config, client, requests, raised,
                   exit_code, file_opens>>

\* f"CD:{config['owner_team']}:{config['model_name']}:{config['variant']}"
DerivedModelId(cfg) ==
    <<"CD", ":", cfg["owner_team"], ":", cfg["model_name"], ":", cfg["variant"]>>

\* variant of update_payload: the whole configuration is sent under "model"
update_payload_Full(cfg) == [m \in {"model"} |-> cfg]

\* the body update_model sends
update_payload(cfg) ==
    [m \in {"model"} |->
       [s \in {"serving_configuration"} |->
          IF "serving_configuration" \in DOMAIN cfg THEN cfg["serving_configuration"]
          ELSE EmptyDict]]

\* variant of DeriveId: `if model_id is None`
DeriveId_IsNone(model_id) == ~model_id.given

\* `if not model_id`: the identifier is derived from the config
DeriveId(model_id) == ~Truthy(model_id)

\* update_model up to and including the call of requests.put
update_model ==
    /\ pc = "dispatch"
    /\ args.action = "update"
    /\ LET e == IF DeriveId(args.model_id)
                  THEN Subscript(config, {"owner_team", "model_name", "variant"})
                  ELSE "ok"
           g == IF config.type # "object" THEN "AttributeError" ELSE "ok"
       IN
         IF e # "ok"
           THEN /\ Uncaught(e)
                /\ UNCHANGED <<requests, out>>
         ELSE IF g # "ok"
           THEN /\ Uncaught(g)
                /\ UNCHANGED <<requests, out>>
         ELSE LET id == IF DeriveId(args.model_id) THEN DerivedModelId(config.members)
                        ELSE args.model_id.str
              IN
                /\ out' = out \o <<"updating", "api_url">>
                /\ requests' = Append(requests,
                      [method |-> "PUT",
                       url |-> client.api_url
                               \o <<"/", "v1", "/", "models", "/", "update", "/">> \o id,
                       json |-> update_payload(config.members),
                       headers |-> client.headers])
                /\ pc' = "put"
                /\ UNCHANGED <<raised, exit_code>>
    /\ UNCHANGED <<argv, environ, file, args, config, client, response, success,
                   file_opens>>

\* update_model from the return of requests.put to its own return
update_response ==
    /\ pc = "put"
    /\ \E resp \in Responses :
         /\ response' = resp
         /\ IF resp.kind = "exception"
              THEN /\ out' = Append(out, "request_failed")
                   /\ success' = "False"
              ELSE IF StatusOk(resp.status_code)
              THEN /\ out' = out \o <<"updated">> \o ResponseLines(resp)
                   /\ success' = "True"
              ELSE /\ out' = out \o <<"update_failed", "response_text">>
                   /\ success' = "False"
    /\ pc' = "report"
    /\ UNCHANGED <<argv, environ, file, args, config, client, requests, raised,
                   exit_code, file_opens>>

\* variant of Report: the result of the operation is not looked at
Report_Ignored ==
    /\ pc = "report"
    /\ out' = Append(out, "completed")
    /\ Return
    /\ UNCHANGED <<argv, environ, file, args, config, client, requests, response,
                   success, file_opens>>

\* the end of main(): `if not success: sys.exit(1)`, else the final message
Report ==
    /\ pc = "report"
    /\ IF success # "True"
         THEN /\ SysExit(1)
              /\ UNCHANGED out
         ELSE /\ out' = Append(out, "completed")
              /\ Return
    /\ UNCHANGED <<argv, environ, file, args, config, client, requests, response,
                   success, file_opens>>

Next ==
    \/ ParseArgs
    \/ ValidateRequiredParameters
    \/ load_model_config
    \/ DryRun
    \/ CreateClient
    \/ register_model
    \/ register_response
    \/ update_model
    \/ update_response
    \/ Report

Spec == Init /\ [][Next]_vars

----------------------------------------------------------------------------
(* Vocabulary of the properties *)

\* the arguments of this run as main() resolves them
Resolved == parse_args(argv, environ)

\* an optional string that is unset or the empty string
IsEmpty(x) == x = None \/ x.str = <<>>

Exited == pc = "exited"
Loads == file.kind = "json"
Printed(line) == \E i \in 1..Len(out) : out[i] = line

\* the configuration as the file holds it
Loaded == file.value.members

\* the operation named on the command line has been entered
RegisterInvoked == args.action = "register" /\ client.built /\ pc # "dispatch"
UpdateInvoked == args.action = "update" /\ client.built /\ pc # "dispatch"

UpdatePath == <<"/", "v1", "/", "models", "/", "update", "/">>
RegisterPath == <<"/", "v1", "/", "models", "/", "register">>

----------------------------------------------------------------------------
\* C1: a dry run whose URL and token are non-empty and whose config loads
\* never constructs a client, never issues a request, and exits with code 0.
C1_DryRunNoRequest ==
    (Resolved.dry_run /\ ~IsEmpty(Resolved.api_url) /\ ~IsEmpty(Resolved.api_token) /\ Loads)
    => /\ requests = <<>>
       /\ ~client.built
       /\ response.kind = "none"
       /\ pc \in {"parse_args", "validate", "load_config", "check_dry_run", "exited"}
       /\ (Exited => exit_code = 0)

C1_Witness ==
    /\ Exited /\ exit_code = 0
    /\ args.dry_run /\ args.action = "update"
    /\ Printed("dry_run_mode")
    /\ config = file.value /\ requests = <<>>

\* C2: when the resolved API URL or the resolved API token is empty or unset,
\* the run ends with exit code 1, the config file is never opened and no
\* request is issued, whatever the action, --dry-run and --model-id are.
C2_ValidationPrecedesIO ==
    (IsEmpty(Resolved.api_url) \/ IsEmpty(Resolved.api_token))
    => /\ file_opens = 0
       /\ config = NoConfig
       /\ ~client.built
       /\ requests = <<>>
       /\ pc \in {"parse_args", "validate", "exited"}
       /\ (Exited => exit_code = 1)

C2_Witness ==
    /\ Exited /\ exit_code = 1
    /\ argv.api_url = None /\ environ.MODEL_API_URL = None
    /\ ~IsEmpty(Resolved.api_token)
    /\ Loads /\ ~argv.dry_run /\ argv.model_id.given
    /\ file_opens = 0

C4_AtMostOneRequest ==
    /\ Len(requests) <= 1
    /\ (response.kind # "none" => Len(requests) = 1 /\ pc \in {"report", "exited"})
    /\ (pc \in {"post", "put"} => Len(requests) = 1 /\ response.kind = "none")

C4_Witness ==
    /\ Exited
    /\ response.kind = "exception"
    /\ Len(requests) = 1 /\ requests[1].method = "POST"

\* C5: for register and for update alike, once the request is issued the
\* operation returns True exactly when the status is 200 or 201, and False for
\* every other status and for a transport exception, whatever the body is.
C5_SuccessRule ==
    /\ (response.kind # "none"
          => /\ success \in {"True", "False"}
             /\ (success = "True"
                   <=> response.kind = "response" /\ response.status_code \in {200, 201}))
    /\ (response.kind = "none" => success = "unbound")

C5_Witness ==
    /\ pc = "report"
    /\ requests[1].method = "PUT"
    /\ response.kind = "response" /\ response.status_code = 201
    /\ response.content = "text"
    /\ success = "True"

\* C6: update sends a PUT to <base_url>/v1/models/update/<model_id> whose body
\* is exactly {"model": {"serving_configuration": S}}, S being the config's
\* serving_configuration when present and the empty mapping otherwise; with
\* config {owner_team:x, model_name:y, variant:z,
\* serving_configuration:{min_instance:2}} and no model-id the target ends in
\* CD:x:y:z.
C6_UpdateRequestShape ==
    /\ (UpdateInvoked /\ requests # <<>> => requests[1].method = "PUT")
    /\ \A i \in 1..Len(requests) :
         requests[i].method = "PUT" =>
           LET r == requests[i]
               n == Len(client.api_url) + Len(UpdatePath)
           IN
             /\ args.action = "update"
             /\ Len(r.url) > n
             /\ SubSeq(r.url, 1, n) = client.api_url \o UpdatePath
             /\ DOMAIN r.json = {"model"}
             /\ DOMAIN r.json["model"] = {"serving_configuration"}
             /\ r.json["model"]["serving_configuration"] =
                  IF "serving_configuration" \in DOMAIN Loaded
                    THEN Loaded["serving_configuration"]
                    ELSE EmptyDict
             /\ (/\ ~argv.model_id.given
                 /\ Loaded = [k \in {"owner_team", "model_name", "variant",
                                     "serving_configuration"} |->
                                CASE k = "owner_team" -> "x"
                                  [] k = "model_name" -> "y"
                                  [] k = "variant" -> "z"
                                  [] k = "serving_configuration" -> [min_instance |-> 2]])
                => /\ SubSeq(r.url, Len(client.api_url) + 1, Len(r.url))
                        = UpdatePath \o <<"CD", ":", "x", ":", "y", ":", "z">>
                   /\ r.json = [m \in {"model"} |->
                                  [s \in {"serving_configuration"} |-> [min_instance |-> 2]]]

C6_Witness ==
    /\ Len(requests) = 1 /\ requests[1].method = "PUT"
    /\ "serving_configuration" \notin DOMAIN Loaded
    /\ "serving_regions" \in DOMAIN Loaded
    /\ requests[1].json["model"]["serving_configuration"] = EmptyDict

\* C7: the body of the register POST is the loaded configuration, field for
\* field, and the configuration main() holds stays equal to what was loaded
\* through register, update and dry run.
C7_ConfigPassedThrough ==
    /\ (config # NoConfig => Loads /\ config = file.value)
    /\ (pc \in {"check_dry_run", "dispatch", "post", "put", "report"} => config = file.value)
    /\ (RegisterInvoked /\ requests # <<>> => requests[1].method = "POST")
    /\ \A i \in 1..Len(requests) :
         requests[i].method = "POST" =>
           /\ args.action = "register"
           /\ requests[i].json = Loaded
           /\ requests[i].url = client.api_url \o RegisterPath

C7_Witness ==
    /\ Exited
    /\ Len(requests) = 1 /\ requests[1].method = "POST"
    /\ DOMAIN requests[1].json = ConfigKeys
    /\ config = file.value

\* C8: a config-loader failure (missing file, malformed JSON, or any other
\* failure to read) ends the run with exit code 1 before a client is
\* constructed or a request issued, in dry-run mode too.
C8_LoaderFailureExits ==
    ~Loads
    => /\ config = NoConfig
       /\ ~client.built
       /\ requests = <<>>
       /\ pc \in {"parse_args", "validate", "load_config", "exited"}
       /\ (Exited => exit_code = 1)
       /\ (Exited /\ file_opens = 1 /\ file.kind = "missing" => Printed("config_not_found"))
       /\ (Exited /\ file_opens = 1 /\ file.kind = "malformed" => Printed("invalid_json"))

C8_Witness ==
    /\ Exited /\ exit_code = 1
    /\ file.kind = "missing" /\ file_opens = 1
    /\ args.dry_run

\* C9 as stated: whenever --model-id is supplied to update, it is used verbatim
\* in the PUT URL and missing owner_team, model_name or variant do not fail.
C9_SuppliedIdVerbatim ==
    (UpdateInvoked /\ args.model_id.given /\ config.type = "object")
    => /\ raised # "KeyError"
       /\ Len(requests) = 1
       /\ requests[1].url = client.api_url \o UpdatePath \o args.model_id.str

\* C9 (amended): a supplied, non-empty model_id is used verbatim in the PUT URL
\* and the config's owner_team, model_name and variant are not needed; when
\* model_id is absent or empty the identifier is CD:<owner_team>:<model_name>:
\* <variant>, built from the three config fields.
C9_NonEmptyIdVerbatim ==
    /\ (UpdateInvoked /\ args.model_id.given /\ args.model_id.str # <<>>
          /\ config.type = "object")
       => /\ raised # "KeyError"
          /\ Len(requests) = 1
          /\ requests[1].method = "PUT"
          /\ requests[1].url = client.api_url \o UpdatePath \o args.model_id.str
    /\ (UpdateInvoked /\ IsEmpty(args.model_id) /\ config.type = "object"
          /\ {"owner_team", "model_name", "variant"} \subseteq DOMAIN Loaded)
       => /\ Len(requests) = 1
          /\ requests[1].method = "PUT"
          /\ requests[1].url =
               client.api_url \o UpdatePath
               \o <<"CD", ":", Loaded["owner_team"], ":", Loaded["model_name"], ":",
                    Loaded["variant"]>>

C9_Witness ==
    /\ Exited
    /\ args.action = "update"
    /\ args.model_id.given /\ args.model_id.str # <<>>
    /\ DOMAIN Loaded = {"serving_configuration"}
    /\ Len(requests) = 1
    /\ requests[1].url = client.api_url \o UpdatePath \o args.model_id.str

\* C10: register with a config lacking model_name or variant, and update
\* without a model-id with a config lacking owner_team, model_name or variant,
\* fail with a lookup failure before any request; the failure is not turned
\* into the boolean failure result and the final message is not printed.
C10_LookupFailureBeforeRequest ==
    /\ (RegisterInvoked /\ config.type = "object"
          /\ ~({"model_name", "variant"} \subseteq DOMAIN Loaded)
        => raised = "KeyError")
    /\ (UpdateInvoked /\ ~args.model_id.given /\ config.type = "object"
          /\ ~({"owner_team", "model_name", "variant"} \subseteq DOMAIN Loaded)
        => raised = "KeyError")
    /\ (raised = "KeyError"
        => /\ Exited
           /\ requests = <<>>
           /\ response.kind = "none"
           /\ success = "unbound"
           /\ ~Printed("completed")
           /\ ~Printed("request_failed"))

C10_Witness ==
    /\ raised = "KeyError"
    /\ args.action = "register"
    /\ "model_name" \in DOMAIN Loaded /\ "variant" \notin DOMAIN Loaded
    /\ requests = <<>>
====
